---- MODULE Spec2Model ----
(***************************************************************************)
(* Model of the Kademlia record store of the light client                  *)
(* (src/src/network/p2p/kad_store.rs): the provider record table, its      *)
(* distance ranking and eviction, the local provided set, the value record *)
(* table over its backing store with the entry codec, and the ledger       *)
(* contract (src/contract/src/contract.rs).                                *)
(***************************************************************************)
EXTENDS Integers, Sequences, FiniteSets, TLC

\* ------------------------------------------------------------------ bounds
NumKeys == 2                  \* content keys 1..NumKeys
NumPeers == 3                 \* node identifiers 0..NumPeers-1
MaxExpires == 1               \* expires: 0 is None, i > 0 is Some(instant i)
MaxProvidersPerKey == 2       \* config.max_providers_per_key ranges over 0..this
MaxProvidedKeys == 2          \* config.max_provided_keys ranges over 0..this
MaxValueLen == 2              \* record values have 0..MaxValueLen bytes
TicksPerSec == 2              \* instants are counted in ticks, this many a second
TtlModulus == 2               \* the persisted ttl wraps at this (u32: 2^32)
MaxNow == 1                   \* the clock runs from tick 0 to this tick
NumAccounts == 2              \* ledger accounts 1..NumAccounts
MaxBalance == 2               \* instantiation balances 0..MaxBalance
MaxPairs == 2                 \* an instantiation lists at most this many pairs
MaxRecords == 1                \* StoreConfig.max_records of every store
MaxTransfers == 2              \* an execution carries at most this many transfers

Keys == 1..NumKeys
Peers == 0..(NumPeers - 1)
Expires == 0..MaxExpires
\* addresses: the lists of transport addresses a record may carry
Addresses == {<<>>}

\* kad::ProviderRecord { key, provider, expires, addresses }
ProviderRecord == [key : Keys, provider : Peers, expires : Expires, addresses : Addresses]

\* StoreConfig, the two fields the provider table reads
StoreConfig ==
  [max_providers_per_key : 0..MaxProvidersPerKey, max_provided_keys : 0..MaxProvidedKeys]

VARIABLES
  local_key,      \* Store.local_key: the identity of the peer owning the store
  config,         \* Store.config
  providers,      \* Store.providers: key -> list of provider records (a map: its
                  \* domain is the set of keys that have an entry)
  provided,       \* Store.provided: HashSet<ProviderRecord>
  call,           \* the last call made on the store and its arguments
  result,         \* what that call returned
  old_providers,  \* Store.providers as it was when the last call was entered
  old_provided,   \* Store.provided as it was when the last call was entered
  records,        \* the records a caller has had accepted by add_provider
  only_adds,      \* TRUE while every call so far was add_provider of a new provider
  value_config,   \* Store.config, the field the value record table reads
  db,             \* Store.records: the backing store, key -> persisted Record
  now,            \* Instant::now(), in ticks
  store_call,     \* the backing store call the last call made: none, Ok or Err
  got,            \* the records the last get or records call handed back
  had_entry,      \* whether the key of the last call had a persisted entry before it
  storage         \* the ledger contract's storage: ACCOUNTS and BALANCES

provider_vars == <<local_key, config, providers, provided,
                   old_providers, old_provided, records, only_adds>>
value_vars == <<value_config, db, now, store_call, got, had_entry>>

vars == <<local_key, config, providers, provided, call, result,
          old_providers, old_provided, records, only_adds,
          value_config, db, now, store_call, got, had_entry, storage>>

\* ---------------------------------------------------------- distance metric
\* KBucketKey hashes its preimage; distinct preimages have distinct hashes.
KeyHash(key) == 7 * key + 2
PeerHash(peer) == 5 * peer + 3

RECURSIVE Xor(_, _)
Xor(a, b) ==
  IF a = 0 THEN b
  ELSE IF b = 0 THEN a
  ELSE (((a % 2) + (b % 2)) % 2) + (2 * Xor(a \div 2, b \div 2))

\* KBucketKey::distance: the XOR of the two hashes, compared as an integer
distance(key, provider) == Xor(KeyHash(key), PeerHash(provider))

\* ------------------------------------------------------- list primitives
\* a position() that never finds the provider
PositionNone(list, provider) == 0

\* iter().position(|p| p.provider == provider): the first index, 0 for None
Position(list, provider) ==
  IF \E i \in 1..Len(list) : list[i].provider = provider
  THEN CHOOSE i \in 1..Len(list) :
         /\ list[i].provider = provider
         /\ \A j \in 1..(i - 1) : list[j].provider # provider
  ELSE 0

\* the closure of the second position(): the new provider is strictly closer
\* to the key than the stored provider p
CloserThan(record, p) ==
  distance(record.key, record.provider) < distance(record.key, p.provider)

\* the comparison turned round: the first stored provider the new one is
\* farther than
InsertPositionFarther(list, record) ==
  IF \E i \in 1..Len(list) : ~CloserThan(record, list[i])
  THEN CHOOSE i \in 1..Len(list) :
         /\ ~CloserThan(record, list[i])
         /\ \A j \in 1..(i - 1) : CloserThan(record, list[j])
  ELSE 0

\* iter().position(|p| provider.distance(&key) < pk.distance(&key)), 0 for None
InsertPosition(list, record) ==
  IF \E i \in 1..Len(list) : CloserThan(record, list[i])
  THEN CHOOSE i \in 1..Len(list) :
         /\ CloserThan(record, list[i])
         /\ \A j \in 1..(i - 1) : ~CloserThan(record, list[j])
  ELSE 0

\* SmallVec::insert(i, record), i counted from 1
Insert(list, i, record) ==
  SubSeq(list, 1, i - 1) \o <<record>> \o SubSeq(list, i, Len(list))

\* a removal that ignores the index and drops the last record
RemoveLast(list, i) == SubSeq(list, 1, Len(list) - 1)

\* SmallVec::remove(i), i counted from 1
Remove(list, i) ==
  SubSeq(list, 1, i - 1) \o SubSeq(list, i + 1, Len(list))

\* an update that drops the stored record and appends the new one
UpdateAtEnd(list, i, record) ==
  Append(SubSeq(list, 1, i - 1) \o SubSeq(list, i + 1, Len(list)), record)

\* providers.as_mut()[i] = record, i counted from 1
Update(list, i, record) == [list EXCEPT ![i] = record]

\* a pop() whose record stays in the provided set
PoppedNone(list, cfg) == {}

\* the excess test off by one: the list may grow one past the limit
PopExcessLate(list, cfg) ==
  IF Len(list) > cfg.max_providers_per_key + 1
  THEN SubSeq(list, 1, Len(list) - 1)
  ELSE list

\* the excess record taken from the front (the closest) instead of the back
PopExcessFront(list, cfg) ==
  IF Len(list) > cfg.max_providers_per_key
  THEN SubSeq(list, 2, Len(list))
  ELSE list

\* the list after "Remove the excess provider, if any": pop() past the limit
PopExcess(list, cfg) ==
  IF Len(list) > cfg.max_providers_per_key
  THEN SubSeq(list, 1, Len(list) - 1)
  ELSE list

\* the records that pop() took off the list (at most one)
Popped(list, cfg) ==
  IF Len(list) > cfg.max_providers_per_key THEN {list[Len(list)]} ELSE {}

\* local_key.preimage() == &record.provider
IsLocal(local, record) == local = record.provider

\* self.provided.insert(record.clone()) under its guard
InsertProvided(pd, local, record) ==
  IF IsLocal(local, record) THEN pd \cup {record} ELSE pd

\* the limit tested with < instead of ==
KeyLimitExceeded(cfg, num_keys) == cfg.max_provided_keys < num_keys

\* the limit applied to the keys the local node provides, as the field's
\* documentation words it, instead of the keys of the table
KeyLimitOnProvided(cfg, num_keys) ==
  cfg.max_provided_keys = Cardinality({r.key : r \in provided})

\* self.config.max_provided_keys == num_keys, tested for a vacant entry
KeyLimitReached(cfg, num_keys) == cfg.max_provided_keys = num_keys

\* the limit applied to every key, also one that has an entry
MustRejectAnyKey(ps, cfg, record) ==
  KeyLimitReached(cfg, Cardinality(DOMAIN ps))

\* the Vacant arm of the entry match: Err(MaxProvidedKeys) is returned
MustReject(ps, cfg, record) ==
  record.key \notin DOMAIN ps /\ KeyLimitReached(cfg, Cardinality(DOMAIN ps))

\* a write that binds every key of the map to list
PutEntryAll(ps, key, list) == [k \in DOMAIN ps \cup {key} |-> list]

\* the map with key bound to list
PutEntry(ps, key, list) ==
  [k \in DOMAIN ps \cup {key} |-> IF k = key THEN list ELSE ps[k]]

\* an emptied entry left in the map
RemoveEntryKeepsKey(ps, key) == [k \in DOMAIN ps |-> IF k = key THEN <<>> ELSE ps[k]]

\* the map without key (OccupiedEntry::remove)
RemoveEntry(ps, key) == [k \in DOMAIN ps \ {key} |-> ps[k]]

\* ------------------------------------------------------------ operations
\* RecordStore::add_provider: the store after the call and what it returns
add_provider(ps, pd, cfg, local, record) ==
  IF MustReject(ps, cfg, record)
  THEN [providers |-> ps, provided |-> pd, result |-> "MaxProvidedKeys"]
  ELSE
    LET list == IF record.key \in DOMAIN ps THEN ps[record.key] ELSE <<>>
        i == Position(list, record.provider)
        j == InsertPosition(list, record)
        inserted == Insert(list, j, record)
    IN
    IF i > 0
    THEN \* in-place update of an existing provider record
         [providers |-> PutEntry(ps, record.key, Update(list, i, record)),
          provided |-> pd,
          result |-> "Ok"]
    ELSE IF j > 0
    THEN \* insert the new provider, then remove the excess provider, if any
         [providers |-> PutEntry(ps, record.key, PopExcess(inserted, cfg)),
          provided |-> InsertProvided(pd, local, record) \ Popped(inserted, cfg),
          result |-> "Ok"]
    ELSE IF Len(list) < cfg.max_providers_per_key
    THEN \* farther than every stored provider, but there is still room
         [providers |-> PutEntry(ps, record.key, Append(list, record)),
          provided |-> InsertProvided(pd, local, record),
          result |-> "Ok"]
    ELSE \* no room: the entry obtained by or_insert_with stays as it is
         [providers |-> PutEntry(ps, record.key, list),
          provided |-> pd,
          result |-> "Ok"]

\* RecordStore::remove_provider: the store after the call
remove_provider(ps, pd, key, provider) ==
  IF key \notin DOMAIN ps
  THEN [providers |-> ps, provided |-> pd]
  ELSE
    LET list == ps[key]
        i == Position(list, provider)
        rest == IF i > 0 THEN Remove(list, i) ELSE list
    IN
    [providers |-> IF rest = <<>> THEN RemoveEntry(ps, key) ELSE PutEntry(ps, key, rest),
     provided |-> IF i > 0 THEN pd \ {list[i]} ELSE pd]

\* RecordStore::providers: the list stored for key, empty when there is none
Providers(ps, key) == IF key \in DOMAIN ps THEN ps[key] ELSE <<>>

\* RecordStore::provided: the records the iterator yields
Provided(pd) == pd

\* ----------------------------------------------------------- state machine
\* Store::with_config: empty provider table and provided set
Init ==
  /\ local_key \in Peers
  /\ config \in StoreConfig
  /\ providers = <<>>
  /\ provided = {}
  /\ call = [op |-> "with_config"]
  /\ result = "Ok"
  /\ old_providers = <<>>
  /\ old_provided = {}
  /\ records = {}
  /\ only_adds = TRUE
  /\ value_config = [max_records |-> MaxRecords, max_value_bytes |-> MaxValueLen]
  /\ db = <<>>
  /\ now = 0
  /\ store_call = "none"
  /\ got = <<>>
  /\ had_entry = FALSE
  /\ storage = [accounts |-> <<>>, balances |-> <<>>]

\* a caller's bookkeeping of accepted records, as the ordering test keeps it:
\* it stays meaningful while each accepted call brought a provider not yet
\* added for its key
FirstAdd(record) ==
  only_adds /\ ~\E r \in records : r.key = record.key /\ r.provider = record.provider

AddProvider ==
  \E record \in ProviderRecord :
    \E out \in {add_provider(providers, provided, config, local_key, record)} :
    /\ providers' = out.providers
    /\ provided' = out.provided
    /\ result' = out.result
    /\ call' = [op |-> "add_provider", record |-> record]
    /\ old_providers' = providers
    /\ old_provided' = provided
    /\ only_adds' = (IF out.result = "Ok" THEN FirstAdd(record) ELSE only_adds)
    /\ records' = (IF out.result # "Ok" THEN records
                   ELSE IF FirstAdd(record) THEN records \cup {record} ELSE {})
    /\ UNCHANGED <<local_key, config, value_vars, storage>>

RemoveProvider ==
  \E key \in Keys, provider \in Peers :
    \E out \in {remove_provider(providers, provided, key, provider)} :
    /\ providers' = out.providers
    /\ provided' = out.provided
    /\ result' = "Ok"
    /\ call' = [op |-> "remove_provider", key |-> key, provider |-> provider]
    /\ old_providers' = providers
    /\ old_provided' = provided
    /\ only_adds' = FALSE
    /\ records' = {}
    /\ UNCHANGED <<local_key, config, value_vars, storage>>

Next == AddProvider \/ RemoveProvider

Spec == Init /\ [][Next]_vars

\* ------------------------------------------------------- derived notions
\* the records of a list, as a set
Elems(list) == {list[i] : i \in 1..Len(list)}

\* every provider record stored in the table, over all keys
StoredRecords(ps) == UNION {Elems(ps[k]) : k \in DOMAIN ps}

\* list is ascending by the distance between key and each record's provider
SortedByDistance(key, list) ==
  \A i, j \in 1..Len(list) :
    i < j => distance(key, list[i].provider) <= distance(key, list[j].provider)

\* records.sort_by_key(distance) of the ordering test, on a set of records
\* of one key with distinct providers
RECURSIVE SortByDistance(_, _)
SortByDistance(key, rs) ==
  IF rs = {} THEN <<>>
  ELSE LET first == CHOOSE r \in rs :
                      \A q \in rs : distance(key, r.provider) <= distance(key, q.provider)
       IN <<first>> \o SortByDistance(key, rs \ {first})

\* records.truncate(n) of the ordering test
Truncate(list, n) == SubSeq(list, 1, IF Len(list) < n THEN Len(list) ELSE n)

\* the list the last call found stored for key
OldProviders(key) == Providers(old_providers, key)

LastAdd == call.op = "add_provider"
LastRemove == call.op = "remove_provider"

\* --------------------------------------------------------------- claims

\* C1: provided() equals exactly the set of the stored provider records, over
\* all keys, whose provider is the local identifier.
\* The code breaks it: an in-place update leaves the old record in the set.
C1_ProvidedInSync ==
  Provided(provided) = {r \in StoredRecords(providers) : r.provider = local_key}

\* C2: for every key, providers(key) is sorted ascending by the distance
\* between the key and each record's provider.
C2_DistanceOrdering ==
  \A key \in Keys : SortedByDistance(key, Providers(providers, key))

\* C2 witness: after removals or updates, a new provider was inserted in
\* front of a stored one.
C2_Witness ==
  /\ LastAdd /\ ~only_adds
  /\ Len(OldProviders(call.record.key)) >= 1
  /\ Position(OldProviders(call.record.key), call.record.provider) = 0
  /\ Len(Providers(providers, call.record.key)) >= 2
  /\ Providers(providers, call.record.key)[1] = call.record

\* C3: for every key, the number of provider records stored for it is at
\* most max_providers_per_key.
C3_PerKeyCapacity ==
  \A key \in DOMAIN providers : Len(providers[key]) <= config.max_providers_per_key

\* C3 witness: a new provider was inserted into a full list and one record
\* was evicted.
C3_Witness ==
  /\ LastAdd /\ result = "Ok"
  /\ config.max_providers_per_key >= 1
  /\ Len(OldProviders(call.record.key)) = config.max_providers_per_key
  /\ Position(OldProviders(call.record.key), call.record.provider) = 0
  /\ call.record \in Elems(Providers(providers, call.record.key))

\* C4: after accepted add_provider calls for distinct providers only, the
\* list of each key is the accepted records of that key sorted ascending by
\* distance and truncated to max_providers_per_key; with one record more than
\* the limit, the single absent provider is the farthest one.
C4_EvictionCorrectness ==
  only_adds =>
    \A key \in Keys :
      LET rs == {r \in records : r.key = key}
          list == Providers(providers, key)
      IN /\ list = Truncate(SortByDistance(key, rs), config.max_providers_per_key)
         /\ Cardinality(rs) = config.max_providers_per_key + 1 =>
              /\ Cardinality(rs \ Elems(list)) = 1
              /\ \A r \in rs \ Elems(list) : \A q \in rs :
                   distance(key, q.provider) <= distance(key, r.provider)

\* C4 witness: one provider more than a limit of at least two was added for
\* a key, the last one being the closest.
C4_Witness ==
  /\ only_adds /\ LastAdd /\ result = "Ok"
  /\ config.max_providers_per_key >= 2
  /\ Cardinality({r \in records : r.key = call.record.key})
       = config.max_providers_per_key + 1
  /\ Providers(providers, call.record.key)[1] = call.record

\* C5: the number of distinct keys that have an entry in the provider table
\* is at most max_provided_keys.
C5_DistinctKeyCapacity ==
  Cardinality(DOMAIN providers) <= config.max_provided_keys

\* C5 witness: a call was rejected with the table at its limit.
C5_Witness ==
  /\ LastAdd /\ result = "MaxProvidedKeys"
  /\ config.max_provided_keys >= 1
  /\ Cardinality(DOMAIN providers) = config.max_provided_keys

C7_CapacityReleased ==
  ( /\ LastRemove
    /\ Len(OldProviders(call.key)) = 1
    /\ OldProviders(call.key)[1].provider = call.provider )
  => /\ call.key \notin DOMAIN providers
     /\ \A record \in ProviderRecord :
          ( /\ record.key # call.key
            /\ add_provider(old_providers, old_provided, config, local_key, record).result
                 = "MaxProvidedKeys" )
          => add_provider(providers, provided, config, local_key, record).result = "Ok"

\* C7 witness: the removal emptied a key of a table that was at its limit,
\* and some other key had no entry.
C7_Witness ==
  /\ LastRemove
  /\ Len(OldProviders(call.key)) = 1
  /\ OldProviders(call.key)[1].provider = call.provider
  /\ Cardinality(DOMAIN old_providers) = config.max_provided_keys
  /\ Keys \ DOMAIN old_providers # {}

\* C8: remove_provider for a pair that is not stored leaves the provider
\* table and the local provided set unchanged and reports no error.
\* The code breaks it for a key whose entry holds an empty list.
C8_IdempotentRemoval ==
  ( /\ LastRemove
    /\ Position(OldProviders(call.key), call.provider) = 0 )
  => /\ providers = old_providers
     /\ provided = old_provided
     /\ result = "Ok"

\* C9: after an accepted add_provider of a record that is admitted (its key's
\* list is not full, or it is closer than some stored provider), the list of
\* its key contains the record; after remove_provider(key, provider) the list
\* of the key has no record of that provider.
C9_AddThenRemove ==
  /\ ( /\ LastAdd /\ result = "Ok"
       /\ \/ Len(OldProviders(call.record.key)) < config.max_providers_per_key
          \/ \E p \in Elems(OldProviders(call.record.key)) : CloserThan(call.record, p) )
     => call.record \in Elems(Providers(providers, call.record.key))
  /\ LastRemove =>
       \A p \in Elems(Providers(providers, call.key)) : p.provider # call.provider

\* C9 witness: a stored record was removed from a list that holds others.
C9_Witness ==
  /\ LastRemove
  /\ Len(OldProviders(call.key)) >= 2
  /\ Position(OldProviders(call.key), call.provider) = 1
  /\ Len(Providers(providers, call.key)) = Len(OldProviders(call.key)) - 1

\* C10: add_provider for a key that already has an entry returns success,
\* and MaxProvidedKeys is the only failure add_provider returns.
C10_OnlyFailure ==
  LastAdd =>
    /\ result \in {"Ok", "MaxProvidedKeys"}
    /\ call.record.key \in DOMAIN old_providers => result = "Ok"

\* C10 witness: the key has an entry, the table holds max_provided_keys keys
\* and the key's list holds max_providers_per_key records.
C10_Witness ==
  /\ LastAdd /\ result = "Ok"
  /\ call.record.key \in DOMAIN old_providers
  /\ Cardinality(DOMAIN old_providers) = config.max_provided_keys
  /\ Len(old_providers[call.record.key]) = config.max_providers_per_key

\* ======================================================= value record table

\* record values: byte strings of 0..MaxValueLen bytes
Values == {[i \in 1..n |-> 0] : n \in 0..MaxValueLen}

\* instants a record may expire at: far enough ahead for the ttl to wrap
MaxInstant == TicksPerSec * TtlModulus + MaxNow
Instants == 0..MaxInstant

\* an Option is the empty sequence (None) or a sequence of one element (Some)
Option(S) == {<<>>} \cup {<<x>> : x \in S}

\* the publisher of the records put: the local node
Publishers == {local_key}

\* kad::Record { key, value, publisher, expires }
KadRecord ==
  [key : Keys, value : Values, publisher : Option(Publishers), expires : Option(Instants)]

\* StoreConfig, the field the value record table reads
ValueConfig == [max_records : {MaxRecords}, max_value_bytes : 0..MaxValueLen]

\* PeerId::to_bytes: the identifier's multihash bytes, never empty
ToBytes(peer) == <<peer + 1>>

\* PeerId::from_bytes succeeds on these bytes
ValidBytes(bytes) == Len(bytes) = 1 /\ (bytes[1] - 1) \in Peers

\* PeerId::from_bytes on valid bytes
FromBytes(bytes) == bytes[1] - 1

\* publisher bytes that are not empty and no peer's bytes
InvalidBytes == <<0>>

\* Instant - Instant: duration_since, which saturates at zero
SaturatingSub(t, u) == IF t > u THEN t - u ELSE 0

\* the ttl of From<kad::Record> for Entry:
\* expires.map(|t| (t - now).max(1 s).as_secs()).unwrap_or(0) as u32
Ttl(expires, t) ==
  IF expires = <<>> THEN 0
  ELSE LET d == SaturatingSub(expires[1], t)
           clamped == IF d < TicksPerSec THEN TicksPerSec ELSE d
       IN (clamped \div TicksPerSec) % TtlModulus

\* From<kad::Record> for Entry, at instant t
Encode(record, t) ==
  [key |-> record.key,
   record |-> [value |-> record.value,
               publisher |-> IF record.publisher = <<>> THEN <<>>
                             ELSE ToBytes(record.publisher[1]),
               ttl |-> Ttl(record.expires, t)]]

\* an expiry counted from instant 0 instead of the instant of decoding
ExpiresOfEpoch(ttl, t) == IF ttl > 0 THEN <<ttl * TicksPerSec>> ELSE <<>>

\* (record.ttl > 0).then(|| Instant::now() + Duration::from_secs(record.ttl.into()))
ExpiresOf(ttl, t) == IF ttl > 0 THEN <<t + ttl * TicksPerSec>> ELSE <<>>

\* From<Entry> for kad::Record, at instant t: expect() panics on publisher
\* bytes that are no peer identifier
Decode(key, entry, t) ==
  IF entry.publisher # <<>> /\ ~ValidBytes(entry.publisher)
  THEN [panic |-> TRUE, record |-> <<>>]
  ELSE [panic |-> FALSE,
        record |-> <<[key |-> key,
                      value |-> entry.value,
                      publisher |-> IF entry.publisher = <<>> THEN <<>>
                                    ELSE <<FromBytes(entry.publisher)>>,
                      expires |-> ExpiresOf(entry.ttl, t)]>>]

\* ---------------------------------------------------------- backing store
\* Database::get: a failure, or the entry under key if there is one
DbGet(d, key, fail) ==
  IF fail THEN [err |-> TRUE, entry |-> <<>>]
  ELSE [err |-> FALSE, entry |-> IF key \in DOMAIN d THEN <<d[key]>> ELSE <<>>]

\* Database::put: a failure that writes nothing, or an upsert
DbPut(d, key, entry, fail) ==
  IF fail THEN [err |-> TRUE, db |-> d]
  ELSE [err |-> FALSE, db |-> [k \in DOMAIN d \cup {key} |-> IF k = key THEN entry ELSE d[k]]]

\* Database::delete: a failure that deletes nothing, or the removal of key
DbDelete(d, key, fail) ==
  IF fail THEN [err |-> TRUE, db |-> d]
  ELSE [err |-> FALSE, db |-> [k \in DOMAIN d \ {key} |-> d[k]]]

\* the keys of d in the order the scan visits them
RECURSIVE ScanOrder(_)
ScanOrder(ks) ==
  IF ks = {} THEN <<>>
  ELSE LET k == CHOOSE x \in ks : \A y \in ks : x <= y
       IN <<k>> \o ScanOrder(ks \ {k})

\* Iter::iter: every persisted entry decoded, one after the other
DbIter(d, t) ==
  LET order == ScanOrder(DOMAIN d) IN
  [i \in 1..Len(order) |-> Decode(order[i], d[order[i]], t)]

\* -------------------------------------------------------------- operations
\* a limit that lets a value of exactly max_value_bytes through
TooLargeStrict(vcfg, record) == Len(record.value) > vcfg.max_value_bytes

\* record.value.len() >= self.config.max_value_bytes
TooLarge(vcfg, record) == Len(record.value) >= vcfg.max_value_bytes

\* .map_err(|_| Error::ValueTooLarge): what put returns for the write's outcome
PutResult(err) == IF err THEN "ValueTooLarge" ELSE "Ok"

\* a put that rejects a new key once max_records records are stored
put_limited(d, vcfg, t, record, fail) ==
  IF TooLarge(vcfg, record)
  THEN [db |-> d, result |-> "ValueTooLarge", store_call |-> "none"]
  ELSE IF record.key \notin DOMAIN d /\ Cardinality(DOMAIN d) >= vcfg.max_records
  THEN [db |-> d, result |-> "MaxRecords", store_call |-> "none"]
  ELSE LET e == Encode(record, t)
           w == DbPut(d, e.key, e.record, fail)
       IN [db |-> w.db, result |-> PutResult(w.err),
           store_call |-> IF w.err THEN "Err" ELSE "Ok"]

\* a put that keeps the record already stored under the key
put_keep_first(d, vcfg, t, record, fail) ==
  IF TooLarge(vcfg, record)
  THEN [db |-> d, result |-> "ValueTooLarge", store_call |-> "none"]
  ELSE LET e == Encode(record, t)
           w == IF e.key \in DOMAIN d THEN [err |-> fail, db |-> d]
                ELSE DbPut(d, e.key, e.record, fail)
       IN [db |-> w.db, result |-> PutResult(w.err),
           store_call |-> IF w.err THEN "Err" ELSE "Ok"]

\* RecordStore::put at instant t
put(d, vcfg, t, record, fail) ==
  IF TooLarge(vcfg, record)
  THEN [db |-> d, result |-> "ValueTooLarge", store_call |-> "none"]
  ELSE LET e == Encode(record, t)
           w == DbPut(d, e.key, e.record, fail)
       IN [db |-> w.db, result |-> PutResult(w.err),
           store_call |-> IF w.err THEN "Err" ELSE "Ok"]

\* RecordStore::get at instant t: a read failure is logged and None returned
get(d, t, key, fail) ==
  LET r == DbGet(d, key, fail) IN
  IF r.err \/ r.entry = <<>>
  THEN [result |-> "Ok", got |-> <<>>, store_call |-> IF r.err THEN "Err" ELSE "Ok"]
  ELSE LET dec == Decode(key, r.entry[1], t) IN
       [result |-> IF dec.panic THEN "panic" ELSE "Ok",
        got |-> dec.record,
        store_call |-> "Ok"]

\* a remove that unwraps the outcome of the delete
RemoveResultUnwrap(err) == IF err THEN "panic" ELSE "Ok"

\* let _ = self.records.delete(..): the outcome of the delete is dropped
RemoveResult(err) == "Ok"

\* a remove that never reaches the backing store
remove_noop(d, key, fail) ==
  [db |-> d, result |-> RemoveResult(FALSE), store_call |-> "Ok"]

\* RecordStore::remove
remove(d, key, fail) ==
  LET w == DbDelete(d, key, fail) IN
  [db |-> w.db, result |-> RemoveResult(w.err),
   store_call |-> IF w.err THEN "Err" ELSE "Ok"]

\* RecordStore::records at instant t: the scan, each record as Cow::Owned;
\* a record that cannot be decoded panics the scan
records_iter(d, t) ==
  LET scan == DbIter(d, t) IN
  IF \E i \in 1..Len(scan) : scan[i].panic
  THEN [result |-> "panic", got |-> <<>>]
  ELSE [result |-> "Ok", got |-> [i \in 1..Len(scan) |-> scan[i].record[1]]]

\* ----------------------------------------------------------- state machine
\* Store::with_config over an empty backing store, for every value limit,
\* followed by add_provider for the local node's record of one key
InitRecords ==
  /\ local_key = 0
  /\ config = [max_providers_per_key |-> MaxProvidersPerKey,
               max_provided_keys |-> MaxProvidedKeys]
  /\ \E seed \in {[key |-> 1, provider |-> local_key, expires |-> 0, addresses |-> <<>>]} :
       \E out \in {add_provider(<<>>, {}, config, local_key, seed)} :
         /\ providers = out.providers
         /\ provided = out.provided
  /\ call = [op |-> "with_config"]
  /\ result = "Ok"
  /\ old_providers = providers
  /\ old_provided = provided
  /\ records = {}
  /\ only_adds = FALSE
  /\ value_config \in ValueConfig
  /\ db = <<>>
  /\ now = 0
  /\ store_call = "none"
  /\ got = <<>>
  /\ had_entry = FALSE
  /\ storage = [accounts |-> <<>>, balances |-> <<>>]

\* a value record call that clears the provider table and the provided set
ValueFrameClears ==
  /\ old_providers' = providers
  /\ old_provided' = provided
  /\ providers' = <<>>
  /\ provided' = {}
  /\ UNCHANGED <<local_key, config, records, only_adds, value_config, storage>>

\* what a value record call leaves alone
ValueFrame ==
  /\ old_providers' = providers
  /\ old_provided' = provided
  /\ UNCHANGED <<local_key, config, providers, provided, records, only_adds,
                 value_config, storage>>

PutRecord ==
  \E record \in KadRecord, fail \in BOOLEAN :
    \E out \in {put(db, value_config, now, record, fail)} :
    /\ db' = out.db
    /\ result' = out.result
    /\ store_call' = out.store_call
    /\ call' = [op |-> "put", key |-> record.key, record |-> record]
    /\ got' = <<>>
    /\ had_entry' = (record.key \in DOMAIN db)
    /\ UNCHANGED now
    /\ ValueFrame

GetRecord ==
  \E key \in Keys, fail \in BOOLEAN :
    \E out \in {get(db, now, key, fail)} :
    /\ result' = out.result
    /\ got' = out.got
    /\ store_call' = out.store_call
    /\ call' = [op |-> "get", key |-> key]
    /\ had_entry' = (key \in DOMAIN db)
    /\ UNCHANGED <<db, now>>
    /\ ValueFrame

RemoveRecord ==
  \E key \in Keys, fail \in BOOLEAN :
    \E out \in {remove(db, key, fail)} :
    /\ db' = out.db
    /\ result' = out.result
    /\ store_call' = out.store_call
    /\ call' = [op |-> "remove", key |-> key]
    /\ got' = <<>>
    /\ had_entry' = (key \in DOMAIN db)
    /\ UNCHANGED now
    /\ ValueFrame

Records ==
  \E out \in {records_iter(db, now)} :
    /\ result' = out.result
    /\ got' = out.got
    /\ store_call' = "Ok"
    /\ call' = [op |-> "records"]
    /\ had_entry' = FALSE
    /\ UNCHANGED <<db, now>>
    /\ ValueFrame

\* time passes between two calls
Tick ==
  /\ now < MaxNow
  /\ now' = now + 1
  /\ call' = [op |-> "tick"]
  /\ result' = "Ok"
  /\ store_call' = "none"
  /\ got' = <<>>
  /\ had_entry' = FALSE
  /\ UNCHANGED db
  /\ ValueFrame

\* the publisher bytes of a persisted entry get corrupted in the backing store
CorruptPublisher ==
  \E key \in DOMAIN db :
    /\ db[key].publisher # InvalidBytes
    /\ db' = [db EXCEPT ![key].publisher = InvalidBytes]
    /\ call' = [op |-> "corrupt", key |-> key]
    /\ result' = "Ok"
    /\ store_call' = "none"
    /\ got' = <<>>
    /\ had_entry' = TRUE
    /\ UNCHANGED now
    /\ ValueFrame

NextRecords == PutRecord \/ GetRecord \/ RemoveRecord \/ Records \/ Tick

SpecRecords == InitRecords /\ [][NextRecords]_vars

NextCorrupt == PutRecord \/ GetRecord \/ RemoveRecord \/ Records \/ Tick \/ CorruptPublisher

SpecCorrupt == InitRecords /\ [][NextCorrupt]_vars

\* ------------------------------------------------------- derived notions
LastPut == call.op = "put"
LastGet == call.op = "get"
LastRemoveRecord == call.op = "remove"
LastRecords == call.op = "records"

\* the last put was written to the backing store
PutStored == LastPut /\ result = "Ok" /\ store_call = "Ok"

\* the distance between two instants, in ticks
Apart(t, u) == IF t > u THEN t - u ELSE u - t

\* the persisted entry under key has publisher bytes that are not empty and
\* are no peer identifier
CorruptEntry(key) ==
  key \in DOMAIN db /\ db[key].publisher # <<>> /\ ~ValidBytes(db[key].publisher)

\* ------------------------------------------------------------------ claims

C12_RoundTrip ==
  PutStored =>
    LET g == get(db, now, call.key, FALSE) IN
    /\ g.result = "Ok" /\ Len(g.got) = 1
    /\ g.got[1].key = call.record.key
    /\ g.got[1].value = call.record.value
    /\ g.got[1].publisher = call.record.publisher
    /\ g.got[1].expires = <<>> <=> call.record.expires = <<>>
    /\ (g.got[1].expires # <<>> /\ call.record.expires # <<>>) =>
         Apart(g.got[1].expires[1], call.record.expires[1]) <= TicksPerSec

C14_StoreFailureReported ==
  (LastPut /\ result = "ValueTooLarge") =>
    Len(call.record.value) >= value_config.max_value_bytes

\* C15: get returns no record only when nothing is stored under the key; a
\* failed read is returned as an error.
\* The code breaks it: a failed read is logged and None is returned.
C15_AbsenceNotFailure ==
  (LastGet /\ result = "Ok" /\ got = <<>>) =>
    /\ store_call = "Ok"
    /\ call.key \notin DOMAIN db

\* C16: when the backing store's delete fails, remove returns normally, the
\* persisted records stay as they were, and the provider table and the local
\* provided set are unchanged.
C16_RemoveBestEffort ==
  /\ \A key \in Keys :
       LET out == remove(db, key, TRUE) IN
       out.result = "Ok" /\ out.db = db
  /\ (LastRemoveRecord /\ store_call = "Err") =>
       /\ result = "Ok"
       /\ had_entry <=> call.key \in DOMAIN db
       /\ providers = old_providers
       /\ provided = old_provided

\* C16 witness: the delete of a stored record failed while the local node
\* provides a key.
C16_Witness ==
  /\ LastRemoveRecord /\ store_call = "Err"
  /\ had_entry
  /\ provided # {} /\ providers # <<>>

\* C17: decoding a persisted entry whose publisher bytes are not empty and
\* are no node identifier ends in a DecodeError, through get and through the
\* scan of all records, never in a panic.
\* The code breaks it: expect("Invalid peer ID") panics.
C17_DecodeErrorExplicit ==
  /\ (LastGet /\ store_call = "Ok" /\ CorruptEntry(call.key)) => result = "DecodeError"
  /\ (LastRecords /\ \E key \in Keys : CorruptEntry(key)) => result # "panic"

\* C18: a record with an expiry is persisted with a ttl of at least 1, and
\* only a record with no expiry is persisted with ttl 0.
\* The code breaks it: "as u32" wraps a duration of a multiple of 2^32
\* seconds to 0.
C18_ExpiringNeverZero ==
  PutStored => (db[call.key].ttl = 0 <=> call.record.expires = <<>>)

Accounts == 1..NumAccounts
Balances == 0..MaxBalance

\* the (account, balance) lists of InstantiateMsg
PairLists == UNION {[1..n -> Accounts \X Balances] : n \in 0..MaxPairs}
InstantiateMsg == [balances : PairLists]

\* Map::save: the value under key is set, the other entries stay
Save(map, key, value) ==
  [k \in DOMAIN map \cup {key} |-> IF k = key THEN value ELSE map[k]]

\* for (key, value) in msg.balances { BALANCES.save(key, value) }, from the
\* i-th pair on
RECURSIVE SaveAll(_, _, _)
SaveAll(map, pairs, i) ==
  IF i > Len(pairs) THEN map
  ELSE SaveAll(Save(map, pairs[i][1], pairs[i][2]), pairs, i + 1)

\* instantiate: ACCOUNTS holds the accounts of the list in its order,
\* BALANCES the balance of each pair
instantiate(st, msg) ==
  [accounts |-> <<[i \in 1..Len(msg.balances) |-> msg.balances[i][1]]>>,
   balances |-> SaveAll(st.balances, msg.balances, 1)]

\* query::balances: the stored accounts, each with its stored balance; a
\* failed load is an error
balances(st) ==
  IF st.accounts = <<>> THEN [err |-> TRUE, balances |-> <<>>]
  ELSE LET accounts == st.accounts[1] IN
       IF \E i \in 1..Len(accounts) : accounts[i] \notin DOMAIN st.balances
       THEN [err |-> TRUE, balances |-> <<>>]
       ELSE [err |-> FALSE,
             balances |-> [i \in 1..Len(accounts) |->
                             <<accounts[i], st.balances[accounts[i]]>>]]

\* the transfers of ExecuteMsg::TransferBalance
Transfer == [from : Accounts, to : Accounts, amount : Balances]
TransferLists == UNION {[1..n -> Transfer] : n \in 0..MaxTransfers}

\* accounts.contains(&address)
Contains(accounts, address) == \E i \in 1..Len(accounts) : accounts[i] = address

\* Uint128::saturating_add; MaxBalance stands for the 128-bit maximum
SaturatingAdd(a, b) == IF a + b > MaxBalance THEN MaxBalance ELSE a + b

\* the address checks the other way round: 'to' before 'from'
NotFoundAddrToFirst(accounts, t) ==
  IF ~Contains(accounts, t.to) THEN <<t.to>>
  ELSE IF ~Contains(accounts, t.from) THEN <<t.from>>
  ELSE <<>>

\* the two accounts.contains checks of one transfer: the address NotFound
\* names, none when both are accounts
NotFoundAddr(accounts, t) ==
  IF ~Contains(accounts, t.from) THEN <<t.from>>
  ELSE IF ~Contains(accounts, t.to) THEN <<t.to>>
  ELSE <<>>

\* the balance check left out
InsufficientNever(balance_from, amount) == FALSE

\* balance_from < transfer.amount
Insufficient(balance_from, amount) == balance_from < amount

\* the loop of exec::transfer from the i-th transfer on: the balances as
\* written so far, and how the loop ended
RECURSIVE TransferLoop(_, _, _, _)
TransferLoop(map, accounts, transfers, i) ==
  IF i > Len(transfers) THEN [balances |-> map, result |-> "Ok", addr |-> <<>>]
  ELSE LET t == transfers[i] IN
       IF NotFoundAddr(accounts, t) # <<>>
       THEN [balances |-> map, result |-> "NotFound", addr |-> NotFoundAddr(accounts, t)]
       ELSE IF t.from \notin DOMAIN map \/ t.to \notin DOMAIN map
       THEN [balances |-> map, result |-> "StdError", addr |-> <<>>]
       ELSE LET balance_from == map[t.from]
                balance_to == map[t.to]
            IN IF Insufficient(balance_from, t.amount)
               THEN [balances |-> map, result |-> "InsufficientBalance", addr |-> <<>>]
               ELSE TransferLoop(
                      Save(Save(map, t.from, SaturatingSub(balance_from, t.amount)),
                           t.to, SaturatingAdd(balance_to, t.amount)),
                      accounts, transfers, i + 1)

\* a transfer that answers Ok whatever way its loop ended
transfer_swallow(st, transfers) ==
  IF st.accounts = <<>>
  THEN [storage |-> st, result |-> "StdError", addr |-> <<>>, data |-> <<>>]
  ELSE LET out == TransferLoop(st.balances, st.accounts[1], transfers, 1)
           written == [st EXCEPT !.balances = out.balances]
       IN [storage |-> written, result |-> "Ok", addr |-> <<>>,
           data |-> balances(written).balances]

\* exec::transfer: the storage as the call wrote it, the error or Ok, and the
\* response data of a successful call
transfer(st, transfers) ==
  IF st.accounts = <<>>
  THEN [storage |-> st, result |-> "StdError", addr |-> <<>>, data |-> <<>>]
  ELSE LET out == TransferLoop(st.balances, st.accounts[1], transfers, 1)
           written == [st EXCEPT !.balances = out.balances]
       IN [storage |-> written, result |-> out.result, addr |-> out.addr,
           data |-> IF out.result = "Ok" THEN balances(written).balances ELSE <<>>]

\* the contract before instantiation; the store's variables stay fixed
InitLedger ==
  /\ local_key = 0
  /\ config = [max_providers_per_key |-> MaxProvidersPerKey,
               max_provided_keys |-> MaxProvidedKeys]
  /\ providers = <<>>
  /\ provided = {}
  /\ call = [op |-> "none"]
  /\ result = "Ok"
  /\ old_providers = <<>>
  /\ old_provided = {}
  /\ records = {}
  /\ only_adds = FALSE
  /\ value_config = [max_records |-> MaxRecords, max_value_bytes |-> MaxValueLen]
  /\ db = <<>>
  /\ now = 0
  /\ store_call = "none"
  /\ got = <<>>
  /\ had_entry = FALSE
  /\ storage = [accounts |-> <<>>, balances |-> <<>>]

\* what a contract call leaves alone
LedgerFrame ==
  UNCHANGED <<local_key, config, providers, provided, old_providers, old_provided,
              records, only_adds, value_config, db, now, store_call, had_entry>>

\* the contract's instantiate entry point, run once
Instantiate ==
  /\ storage.accounts = <<>>
  /\ \E msg \in InstantiateMsg :
       /\ storage' = instantiate(storage, msg)
       /\ call' = [op |-> "instantiate", msg |-> msg]
       /\ result' = "Ok"
       /\ got' = <<>>
  /\ LedgerFrame

\* the contract's query entry point with QueryMsg::Balances
Query ==
  /\ \E out \in {balances(storage)} :
       /\ result' = IF out.err THEN "Err" ELSE "Ok"
       /\ got' = out.balances
  /\ call' = [op |-> "query"]
  /\ UNCHANGED storage
  /\ LedgerFrame

\* the contract's execute entry point with ExecuteMsg::TransferBalance, on an
\* instantiated contract; the host keeps the writes of a call that returns
\* Ok and discards those of a call that returns Err
Execute ==
  /\ storage.accounts # <<>>
  /\ \E transfers \in TransferLists :
       \E out \in {transfer(storage, transfers)} :
         /\ storage' = IF out.result = "Ok" THEN out.storage ELSE storage
         /\ result' = out.result
         /\ got' = IF out.result = "Ok" THEN out.data ELSE out.addr
         /\ call' = [op |-> "execute", transfers |-> transfers]
  /\ LedgerFrame

NextLedger == Instantiate \/ Query \/ Execute
SpecLedger == InitLedger /\ [][NextLedger]_vars

LastInstantiate == call.op = "instantiate"

\* C20: after instantiate with a list of (account, balance) pairs, the
\* Balances query returns that same list: same accounts, same order, same
\* balances.
\* The code breaks it when an account is in the list twice: each of its
\* pairs comes back with the balance of the last one.
C20_BalancesAsInstantiated ==
  LastInstantiate =>
    LET out == balances(storage) IN
    ~out.err /\ out.balances = call.msg.balances

\* ------------------------------------------------ ledger: derived notions
LastExecute == call.op = "execute"

\* the accounts given at instantiation
Instantiated == storage.accounts # <<>>
Known(address) == Instantiated /\ Contains(storage.accounts[1], address)

\* a transfer whose 'from' or 'to' is no account, and the address at fault
Unknown(t) == ~Known(t.from) \/ ~Known(t.to)
Named(t) == IF ~Known(t.from) THEN t.from ELSE t.to

\* the first i - 1 transfers of the batch
Before(transfers, i) == SubSeq(transfers, 1, i - 1)

\* C21 as stated: an execution containing a transfer whose 'from' or 'to' is
\* not an account given at instantiation fails with NotFound naming that
\* address.
C21_NotFound ==
  LastExecute =>
    \A i \in 1..Len(call.transfers) :
      Unknown(call.transfers[i]) =>
        (result = "NotFound" /\ got = <<Named(call.transfers[i])>>)

\* C21 amended: such an execution fails; it fails with NotFound naming the
\* address of the first such transfer ('from' checked before 'to') when the
\* transfers before that one succeed, and with InsufficientBalance otherwise.
C21_FirstNotFound ==
  /\ Instantiated =>
       \A transfers \in TransferLists :
         \A i \in 1..Len(transfers) :
           (Unknown(transfers[i]) /\ \A j \in 1..(i - 1) : ~Unknown(transfers[j])) =>
             LET out == transfer(storage, transfers) IN
             IF transfer(storage, Before(transfers, i)).result = "Ok"
             THEN out.result = "NotFound" /\ out.addr = <<Named(transfers[i])>>
             ELSE out.result = "InsufficientBalance"
  /\ LastExecute =>
       \A i \in 1..Len(call.transfers) :
         (Unknown(call.transfers[i]) /\ \A j \in 1..(i - 1) : ~Unknown(call.transfers[j])) =>
           \/ result = "NotFound" /\ got = <<Named(call.transfers[i])>>
           \/ result = "InsufficientBalance" /\ i > 1

\* C21 witness: the second transfer of a batch names a 'to' that is no
\* account, after a first transfer that moved a balance.
C21_Witness ==
  /\ LastExecute /\ result = "NotFound"
  /\ Len(call.transfers) = 2
  /\ ~Unknown(call.transfers[1]) /\ call.transfers[1].amount > 0
  /\ Known(call.transfers[2].from) /\ ~Known(call.transfers[2].to)
  /\ got = <<call.transfers[2].to>>

\* C22 as stated: a transfer whose amount is greater than the current
\* balance of its 'from' account fails with InsufficientBalance.
C22_Insufficient ==
  \A t \in Transfer :
    (Known(t.from) /\ t.amount > storage.balances[t.from]) =>
      transfer(storage, <<t>>).result = "InsufficientBalance"

\* C22 amended: a transfer between two accounts given at instantiation whose
\* amount is greater than the current balance of its 'from' account, after
\* the earlier executions and the earlier transfers of its batch, fails with
\* InsufficientBalance; no balance is ever below zero.
C22_InsufficientBetweenAccounts ==
  /\ Instantiated =>
       \A transfers \in TransferLists :
         \A i \in 1..Len(transfers) :
           LET before == transfer(storage, Before(transfers, i))
               t == transfers[i]
           IN (/\ before.result = "Ok"
               /\ ~Unknown(t)
               /\ t.amount > before.storage.balances[t.from]) =>
                transfer(storage, transfers).result = "InsufficientBalance"
  /\ \A account \in DOMAIN storage.balances : storage.balances[account] >= 0
  /\ (LastExecute /\ result = "Ok") =>
       \A account \in DOMAIN storage.balances :
         storage.balances[account] \in Balances

\* C22 witness: the second transfer of a batch asks for an amount its 'from'
\* account held before the batch and no longer holds after the first.
C22_Witness ==
  /\ LastExecute /\ result = "InsufficientBalance"
  /\ Len(call.transfers) = 2
  /\ ~Unknown(call.transfers[1]) /\ ~Unknown(call.transfers[2])
  /\ call.transfers[1].from = call.transfers[2].from
  /\ call.transfers[1].from # call.transfers[1].to
  /\ call.transfers[1].amount <= storage.balances[call.transfers[1].from]
  /\ call.transfers[2].amount <= storage.balances[call.transfers[2].from]

\* C23: a successful transfer of amount a from account x to a different
\* account y lowers x's balance by exactly a, raises y's by exactly a, leaves
\* every other balance unchanged, and the response data equals the result of
\* the Balances query made right after.
\* The code breaks it: saturating_add stops y's balance at the 128-bit
\* maximum.
C23_TransferMoves ==
  Instantiated =>
    \A t \in Transfer :
      LET out == transfer(storage, <<t>>) IN
      (t.from # t.to /\ out.result = "Ok") =>
        /\ out.storage.balances[t.from] = storage.balances[t.from] - t.amount
        /\ out.storage.balances[t.to] = storage.balances[t.to] + t.amount
        /\ \A account \in DOMAIN storage.balances \ {t.from, t.to} :
             out.storage.balances[account] = storage.balances[account]
        /\ out.data = balances(out.storage).balances

\* ------------------------------------------- provider table: more claims

\* C24: add_provider with a record whose (key, provider) pair is already
\* stored replaces the stored record at the same list position with the new
\* record, leaves the list length and the position of every other record
\* unchanged, and returns success.
C24_InPlaceUpdate ==
  LastAdd =>
    LET old == OldProviders(call.record.key)
        new == Providers(providers, call.record.key)
        i == CHOOSE n \in 0..Len(old) :
               /\ n > 0 => old[n].provider = call.record.provider
               /\ \A m \in 1..Len(old) : old[m].provider = call.record.provider => n > 0
    IN i > 0 =>
         /\ result = "Ok"
         /\ Len(new) = Len(old)
         /\ new[i] = call.record
         /\ \A m \in 1..Len(old) : m # i => new[m] = old[m]
         /\ \A key \in Keys \ {call.record.key} :
              Providers(providers, key) = OldProviders(key)

\* C24 witness: the first record of a list of two was replaced by a record
\* with another expiry.
C24_Witness ==
  /\ LastAdd /\ result = "Ok"
  /\ Len(OldProviders(call.record.key)) >= 2
  /\ OldProviders(call.record.key)[1].provider = call.record.provider
  /\ OldProviders(call.record.key)[1] # call.record
  /\ Providers(providers, call.record.key)[1] = call.record

\* the last call added a provider that the list of its key did not hold
LastAddNew ==
  /\ LastAdd
  /\ \A m \in 1..Len(OldProviders(call.record.key)) :
       OldProviders(call.record.key)[m].provider # call.record.provider

\* the list the last call found for its key held max_providers_per_key records
WasFull == Len(OldProviders(call.record.key)) = config.max_providers_per_key

\* C25: add_provider of a new provider that is farther from the key than
\* every stored provider of that key, on a list that already holds
\* max_providers_per_key records, returns success and leaves the provider
\* table and the local provided set exactly as they were.
\* The code breaks it for max_providers_per_key = 0: the call leaves an
\* empty entry for a new key (C30), or is rejected with MaxProvidedKeys.
C25_SilentDrop ==
  ( /\ LastAddNew /\ WasFull
    /\ \A m \in 1..Len(OldProviders(call.record.key)) :
         distance(call.record.key, call.record.provider)
           > distance(call.record.key, OldProviders(call.record.key)[m].provider) )
  => /\ result = "Ok"
     /\ providers = old_providers
     /\ provided = old_provided

\* C26: when add_provider inserts a closer provider into a full list, exactly
\* one record, the one that was farthest before the insertion, is removed
\* (never the record just inserted), and if that record's provider is the
\* local node, provided() no longer yields it.
C26_EvictionOfLocal ==
  ( /\ LastAddNew /\ WasFull
    /\ \E m \in 1..Len(OldProviders(call.record.key)) :
         distance(call.record.key, call.record.provider)
           < distance(call.record.key, OldProviders(call.record.key)[m].provider) )
  => LET old == OldProviders(call.record.key)
         new == Providers(providers, call.record.key)
         farthest == old[Len(old)]
     IN /\ result = "Ok"
        /\ Len(new) = Len(old)
        /\ Elems(old) \ Elems(new) = {farthest}
        /\ Elems(new) \ Elems(old) = {call.record}
        /\ \A p \in Elems(old) :
             distance(call.record.key, p.provider)
               <= distance(call.record.key, farthest.provider)
        /\ farthest.provider = local_key => farthest \notin Provided(provided)

\* C26 witness: the record pushed out of a full list was the local node's,
\* and provided() yielded it before the call.
C26_Witness ==
  /\ LastAddNew /\ WasFull /\ result = "Ok"
  /\ Len(OldProviders(call.record.key)) >= 1
  /\ call.record \in Elems(Providers(providers, call.record.key))
  /\ LET old == OldProviders(call.record.key) IN
     /\ old[Len(old)].provider = local_key
     /\ old[Len(old)] \in Provided(old_provided)
     /\ old[Len(old)] \notin Elems(Providers(providers, call.record.key))

\* C27: in every reachable state, for every key, no two provider records
\* stored for that key have the same provider.
C27_OneRecordPerProvider ==
  \A key \in Keys :
    \A m, n \in 1..Len(Providers(providers, key)) :
      m # n => Providers(providers, key)[m].provider # Providers(providers, key)[n].provider

\* C27 witness: a provider was added again, with another record, to a list
\* that holds it in second place.
C27_Witness ==
  /\ LastAdd /\ result = "Ok"
  /\ Len(OldProviders(call.record.key)) >= 2
  /\ OldProviders(call.record.key)[2].provider = call.record.provider
  /\ OldProviders(call.record.key)[2] # call.record
  /\ Len(Providers(providers, call.record.key)) = Len(OldProviders(call.record.key))

\* C30: in every reachable state, for every configuration, every key that
\* has an entry in the provider table has at least one provider record.
\* The code breaks it for max_providers_per_key = 0: or_insert_with leaves an
\* entry with an empty list, which counts toward max_provided_keys.
C30_NoEmptyLists ==
  \A key \in DOMAIN providers : providers[key] # <<>>

\* --------------------------------------------- value records: more claims

\* C28: a persisted entry with ttl 0 decodes to a record with no expiry, and
\* one with ttl t > 0 to a record whose expiry is the instant of decoding
\* plus t seconds, whatever the instant at which it was encoded.
C28_TtlDecoding ==
  /\ \A key \in DOMAIN db :
       \A t \in 0..MaxNow :
         LET out == Decode(key, db[key], t) IN
         /\ ~out.panic
         /\ db[key].ttl = 0 => out.record[1].expires = <<>>
         /\ db[key].ttl > 0 =>
              out.record[1].expires = <<t + db[key].ttl * TicksPerSec>>
  /\ (LastGet /\ Len(got) = 1) =>
       got[1].expires = IF db[call.key].ttl = 0 THEN <<>>
                        ELSE <<now + db[call.key].ttl * TicksPerSec>>

\* C28 witness: an entry with a ttl above 0 was read at the last instant of
\* the clock.
C28_Witness ==
  /\ LastGet /\ result = "Ok" /\ Len(got) = 1
  /\ now = MaxNow /\ now > 0
  /\ db[call.key].ttl > 0
  /\ got[1].expires = <<now + db[call.key].ttl * TicksPerSec>>

LastKey == IF LastAdd THEN call.record.key ELSE call.key

\* C31: in every state reachable by add_provider and remove_provider calls,
\* provided() holds at most one record per key and its size never exceeds
\* the number of keys in the provider table, hence never max_provided_keys.
\* The code breaks it: a record left behind by an in-place update (C1) stays
\* when the local node's record is removed, and re-adding the local node
\* with another expiry puts a second record of the key into the set.
C31_BoundedProvided ==
  /\ \A key \in Keys : Cardinality({r \in Provided(provided) : r.key = key}) <= 1
  /\ Cardinality(Provided(provided)) <= Cardinality(DOMAIN providers)
  /\ Cardinality(Provided(provided)) <= config.max_provided_keys

\* C32: add_provider and remove_provider for key K leave the provider list
\* of every other key unchanged, and change the local provided set only by
\* adding or removing records whose key is K.
C32_PerKeyIsolation ==
  (LastAdd \/ LastRemove) =>
    /\ \A key \in Keys \ {LastKey} :
         /\ key \in DOMAIN providers <=> key \in DOMAIN old_providers
         /\ Providers(providers, key) = OldProviders(key)
    /\ \A r \in (provided \ old_provided) \cup (old_provided \ provided) :
         r.key = LastKey

\* C32 witness: a call changed the provided set while another key has
\* providers and a record in the provided set.
C32_Witness ==
  /\ LastAdd \/ LastRemove
  /\ provided # old_provided
  /\ \E key \in Keys \ {LastKey} :
       /\ Len(OldProviders(key)) >= 1
       /\ \E r \in provided : r.key = key

\* the last call was one of get, put, remove and records
LastValueCall == LastPut \/ LastGet \/ LastRemoveRecord \/ LastRecords

\* the backing store, the clock and the record of the last backing-store call
StoreSide == <<db, now, store_call, got, had_entry>>

\* C33: put, get, remove and records never change the provider table or the
\* local provided set, and add_provider and remove_provider never read or
\* write the value-record backing store: from no state reached by value
\* record calls does a provider call change the store or call it.
C33_Separation ==
  /\ LastValueCall => (providers = old_providers /\ provided = old_provided)
  /\ ~ENABLED (AddProvider /\ StoreSide' # StoreSide)
  /\ ~ENABLED (RemoveProvider /\ StoreSide' # StoreSide)

\* C33 witness: a put was stored while the provider table and the provided
\* set hold a record, and every key has a value record.
C33_Witness ==
  /\ PutStored
  /\ providers # <<>> /\ provided # {}
  /\ Cardinality(DOMAIN db) = NumKeys
  /\ ENABLED AddProvider /\ ENABLED RemoveProvider

\* the sum of the balances of all accounts
RECURSIVE Sum(_)
Sum(map) ==
  IF DOMAIN map = {} THEN 0
  ELSE LET account == CHOOSE a \in DOMAIN map : TRUE
       IN map[account] + Sum([a \in DOMAIN map \ {account} |-> map[a]])

\* C34: every successful TransferBalance execution leaves the sum of all
\* account balances equal to the sum before it, for every batch.
\* The code breaks it: a transfer from an account to itself saves the debited
\* balance and then the credited one, computed from the balance loaded
\* before the debit; and saturating_add drops what exceeds the maximum.
C34_Conservation ==
  Instantiated =>
    \A transfers \in TransferLists :
      LET out == transfer(storage, transfers) IN
      out.result = "Ok" => Sum(out.storage.balances) = Sum(storage.balances)

\* the loop of exec::transfer fails on the batch of the step's call
BatchFails ==
  /\ call'.op = "execute"
  /\ TransferLoop(storage.balances, storage.accounts[1], call'.transfers, 1).result
       \in {"NotFound", "InsufficientBalance"}

====
